---- MODULE Spec2Model ----
(***************************************************************************)
(* The completion gateway of SkillWeaver (src/skillweaver/lm.py): the LM   *)
(* facade with its asyncio.Semaphore, and the two backend adapters         *)
(* completion_openai and completion_anthropic with their retry loops.      *)
(*                                                                         *)
(* One gateway instance serves NumCalls logical calls (LM.__call__).  The  *)
(* backend is an opaque remote service: every network call either raises   *)
(* or delivers a reply, chosen nondeterministically.  A step of the model  *)
(* runs one coroutine from one suspension point (semaphore wait, network   *)
(* call, backoff sleep) to the next, as the asyncio event loop does.  The  *)
(* awaited console prints of the handlers change no state of the gateway   *)
(* and are part of the step that reaches them.                             *)
(***************************************************************************)
EXTENDS Integers, Sequences, FiniteSets, TLC

\* ------------------------------------------------------------------ bounds
NumCalls == 2                 \* logical calls made of the gateway
MaxConcurrencyBound == 2      \* largest max_concurrency an LM is built with

\* ------------------------------------------------------ program constants
TriesOneMore == 5 + 1         \* a slip of the loop bound: one attempt too many
Tries == 5                    \* lm.py:45, lm.py:150
InitialBackoff == 4           \* lm.py:46, lm.py:151
BackoffCap == 30              \* lm.py:129, lm.py:228

Calls == 1 .. NumCalls

Min(a, b) == IF a < b THEN a ELSE b

\* ------------------------------------------------------------ Python values
\* Every Python value the model handles is a record [py, v]: py its type,
\* v a sequence of strings (the pieces of a str, the name of a decoded dict).
PyNone == [py |-> "None", v |-> << >>]
PyStr(toks) == [py |-> "str", v |-> toks]
PyDict(name) == [py |-> "dict", v |-> <<name>>]

\* Reply texts are sequences of pieces: the Markdown fence, the word json,
\* a newline, a complete JSON object, a truncated JSON object, prose.
FENCE == "<fence>"
JSONTAG == "json"
NL == "<nl>"
OBJ == "{answer: 4}"
OBJ2 == "{answer: 5}"
TRUNC == "{answer:"
PROSE == "Sure."

IsSpace(t) == t = NL

\* str.strip(): drops the leading and trailing whitespace (lm.py:211, 213;
\* json.loads ignores surrounding whitespace as well).
RECURSIVE LStrip(_)
LStrip(s) == IF s # << >> /\ IsSpace(Head(s)) THEN LStrip(Tail(s)) ELSE s
RECURSIVE RStrip(_)
RStrip(s) ==
    IF s # << >> /\ IsSpace(s[Len(s)]) THEN RStrip(SubSeq(s, 1, Len(s) - 1)) ELSE s
Strip(s) == RStrip(LStrip(s))

\* json.loads(text): the decoded object of a text that is one complete JSON
\* object (surrounding whitespace allowed); JSONDecodeError otherwise.
JsonLoads(s) ==
    IF Strip(s) = <<OBJ>>
    THEN [ok |-> TRUE, val |-> PyDict("answer=4")]
    ELSE IF Strip(s) = <<OBJ2>>
    THEN [ok |-> TRUE, val |-> PyDict("answer=5")]
    ELSE [ok |-> FALSE, val |-> PyNone]

\* ------------------------------------------------------------------ errors
\* An exception is [type, where, at]: its Python type, the statement that
\* raised it, and the attempt (loop index i) in which it was raised; two
\* exceptions of different attempts are different objects.
NoError == [type |-> "None", where |-> "None", at |-> 0]
Error(type, where, at) == [type |-> type, where |-> where, at |-> at]

\* "JSON" in str(type(e)).upper()   (lm.py:121, lm.py:220)
IsJsonTyped(e) == e.type = "JSONDecodeError"

\* ---------------------------------------------------------------- requests
\* The arguments of LM.__call__ that decide the decoding: the names of the
\* tools, json_mode, and json_schema (None, or a schema dict).
ToolNames == {"pick"}
Requests ==
    [tools : SUBSET ToolNames, json_mode : BOOLEAN, json_schema : {"None", "Schema"}]

\* The request of a call that has not been made: the defaults of LM.__call__.
NoRequest == [tools |-> {}, json_mode |-> FALSE, json_schema |-> "None"]

\* json_mode or json_schema is not None   (lm.py:116, lm.py:208)
WantsJson(r) == r.json_mode \/ r.json_schema # "None"

\* ----------------------------------------------------------------- replies
\* What a backend call delivers when it does not raise: whether the usage
\* figures are present, the tool calls of the message (has_calls FALSE is
\* tool_calls = None), and the text content (PyNone: no content).
ToolCall(name, arguments) == [name |-> name, arguments |-> arguments]
Reply(usage, has_calls, tool_calls, content) ==
    [usage |-> usage, has_calls |-> has_calls, tool_calls |-> tool_calls,
     content |-> content]

\* The value a call returns, tagged with the return statement that made it.
NoResult == [variant |-> "None", name |-> "", value |-> PyNone]
Result(variant, name, value) == [variant |-> variant, name |-> name, value |-> value]

\* The outcome of decoding one reply: a result, or the exception raised
\* (type and raising statement); msg tells whether the local msg was bound.
Decoded(val, msg) == [ok |-> TRUE, val |-> val, type |-> "None", where |-> "None", msg |-> msg]
Raises(type, where, msg) ==
    [ok |-> FALSE, val |-> NoResult, type |-> type, where |-> where, msg |-> msg]

\* A different adapter: the first tool call that names a requested tool is
\* taken, wherever it stands in the list.
DecodeToolCallAnyKnown(r, rep) ==
    LET known == {n \in 1 .. Len(rep.tool_calls) : rep.tool_calls[n].name \in r.tools}
        n == CHOOSE m \in known : \A k \in known : m <= k
    IN IF ~(rep.has_calls /\ Len(rep.tool_calls) > 0)
       THEN Raises("AssertionError", "tool_calls", TRUE)
       ELSE IF known = {}
       THEN Raises("AssertionError", "tool_name", TRUE)
       ELSE IF ~JsonLoads(rep.tool_calls[n].arguments).ok
       THEN Raises("JSONDecodeError", "arguments", TRUE)
       ELSE Decoded(Result("ToolCall", rep.tool_calls[n].name,
                           JsonLoads(rep.tool_calls[n].arguments).val), TRUE)

\* The tool-call branch of completion_openai (lm.py:86-109).
DecodeToolCall(r, rep) ==
    IF ~(rep.has_calls /\ Len(rep.tool_calls) > 0)
    THEN Raises("AssertionError", "tool_calls", TRUE)
    ELSE IF rep.tool_calls[1].name \notin r.tools
    THEN Raises("AssertionError", "tool_name", TRUE)
    ELSE IF ~JsonLoads(rep.tool_calls[1].arguments).ok
    THEN Raises("JSONDecodeError", "arguments", TRUE)
    ELSE Decoded(Result("ToolCall", rep.tool_calls[1].name,
                        JsonLoads(rep.tool_calls[1].arguments).val), TRUE)

\* A slip of the content branch: the raw text as a fallback when it does
\* not parse.
DecodeContentRawFallback(r, rep) ==
    IF rep.content = PyNone THEN Raises("AssertionError", "content", TRUE)
    ELSE IF WantsJson(r) /\ JsonLoads(rep.content.v).ok
    THEN Decoded(Result("Json", "", JsonLoads(rep.content.v).val), TRUE)
    ELSE Decoded(Result("Text", "", rep.content), TRUE)

\* The content branch of completion_openai (lm.py:111-119).
DecodeContent(r, rep) ==
    IF rep.content = PyNone THEN Raises("AssertionError", "content", TRUE)
    ELSE IF WantsJson(r) THEN
        IF JsonLoads(rep.content.v).ok
        THEN Decoded(Result("Json", "", JsonLoads(rep.content.v).val), TRUE)
        ELSE Raises("JSONDecodeError", "content", TRUE)
    ELSE Decoded(Result("Text", "", rep.content), TRUE)

\* completion_openai, from the reply to the return or the raise (lm.py:77-119).
DecodeOpenAI(r, rep) ==
    IF ~rep.usage THEN Raises("AssertionError", "usage", FALSE)
    ELSE IF r.tools # {} THEN DecodeToolCall(r, rep)
    ELSE DecodeContent(r, rep)

\* Positions of the separators in a text: the first piece FENCE followed by
\* JSONTAG, and the first piece FENCE; 0 when the text has none.
FenceJsonAt(s) ==
    LET ks == {k \in 1 .. Len(s) - 1 : s[k] = FENCE /\ s[k + 1] = JSONTAG}
    IN IF ks = {} THEN 0 ELSE CHOOSE k \in ks : \A j \in ks : k <= j
FenceAt(s) ==
    LET ks == {k \in 1 .. Len(s) : s[k] = FENCE}
    IN IF ks = {} THEN 0 ELSE CHOOSE k \in ks : \A j \in ks : k <= j

\* s.split(sep)[0] and s.split(sep)[1] for the two separators, sep in s
\* where [1] is taken (lm.py:211, lm.py:213).
BeforeFence(s) == IF FenceAt(s) = 0 THEN s ELSE SubSeq(s, 1, FenceAt(s) - 1)
BeforeFenceJson(s) == IF FenceJsonAt(s) = 0 THEN s ELSE SubSeq(s, 1, FenceJsonAt(s) - 1)
AfterFirstFence(s) == BeforeFence(SubSeq(s, FenceAt(s) + 1, Len(s)))
AfterFirstFenceJson(s) == BeforeFenceJson(SubSeq(s, FenceJsonAt(s) + 2, Len(s)))

\* A different adapter: only the fence tagged json is stripped.
StripFencesJsonOnly(s) ==
    IF FenceJsonAt(s) # 0 THEN Strip(BeforeFence(AfterFirstFenceJson(s))) ELSE s

\* The fence stripping of completion_anthropic (lm.py:210-213).
StripFences(s) ==
    IF FenceJsonAt(s) # 0 THEN Strip(BeforeFence(AfterFirstFenceJson(s)))
    ELSE IF FenceAt(s) # 0 THEN Strip(BeforeFence(AfterFirstFence(s)))
    ELSE s

\* completion_anthropic, from the reply to the return or the raise
\* (lm.py:196-217); the tools of the request are not read.
DecodeAnthropic(r, rep) ==
    IF ~rep.usage THEN Raises("AttributeError", "usage", FALSE)
    ELSE IF rep.content = PyNone THEN Raises("IndexError", "content", FALSE)
    ELSE IF WantsJson(r) THEN
        IF JsonLoads(StripFences(rep.content.v)).ok
        THEN Decoded(Result("Json", "", JsonLoads(StripFences(rep.content.v)).val), FALSE)
        ELSE Raises("JSONDecodeError", "content", FALSE)
    ELSE Decoded(Result("Text", "", rep.content), FALSE)

\* ------------------------------------------------- what the backend may do
\* Reply texts: prose, a bare JSON object, the object in a json fence and
\* the object in a bare fence.
Texts ==
    { <<PROSE>>, <<OBJ>>,
      <<FENCE, JSONTAG, NL, OBJ, NL, FENCE>>,
      <<FENCE, NL, OBJ, NL, FENCE>> }

\* Tool-call lists of a reply: none, one call (known or unknown tool, good or
\* truncated arguments), and two calls with the known tool first or second.
ToolCallLists ==
    { << >>,
      <<ToolCall("pick", <<OBJ>>)>>, <<ToolCall("other", <<OBJ>>)>>,
      <<ToolCall("pick", <<TRUNC>>)>>,
      <<ToolCall("pick", <<OBJ>>), ToolCall("other", <<OBJ>>)>>,
      <<ToolCall("other", <<OBJ>>), ToolCall("pick", <<OBJ>>)>> }

NoReply == Reply(FALSE, FALSE, << >>, PyNone)

\* The texts a backend sends for request r: any of Texts where the adapter
\* parses the text, prose or an object where it hands the text on unread.
TextsFor(r) == IF WantsJson(r) THEN Texts ELSE {<<PROSE>>, <<OBJ>>}

\* The replies a backend can give to request r.  The parts of a reply that
\* the adapter never reads for r are left empty: the tool calls when no tool
\* was requested of the OpenAI-style backend (and always for the
\* Anthropic-style one), the content when a tool call was requested.
Replies(fam, r) ==
    IF fam = "openai" /\ r.tools # {}
    THEN {NoReply, Reply(TRUE, FALSE, << >>, PyNone)} \cup
         {Reply(TRUE, TRUE, tcs, PyNone) : tcs \in ToolCallLists}
    ELSE {NoReply} \cup
         {Reply(TRUE, FALSE, << >>, c) : c \in {PyNone} \cup {PyStr(t) : t \in TextsFor(r)}}

\* The exceptions the client call itself can raise (lm.py:61, lm.py:194): a
\* network/HTTP failure, or a failure to decode the response body, whose
\* type name contains JSON.
ClientErrorTypes == {"TransportError", "JSONDecodeError"}

\* ------------------------------------------------------------ model names
\* A model name is a sequence of characters.
GptLower == <<"g", "p", "t", "4">>
GptUpper == <<"G", "P", "T", "4">>
Qwen == <<"q", "w", "e", "n">>
ClaudeLower == <<"c", "l", "a", "u", "d", "e">>
ClaudeMixed == <<"C", "l", "a", "u", "d", "e">>

ModelNames == {GptLower, GptUpper, Qwen, ClaudeLower, ClaudeMixed}

\* str.lower(), on the letters of ModelNames.
LowerChar(ch) ==
    CASE ch = "G" -> "g" [] ch = "P" -> "p" [] ch = "T" -> "t" [] ch = "C" -> "c"
      [] OTHER -> ch
Lower(s) == [n \in DOMAIN s |-> LowerChar(s[n])]

\* sub in s
Contains(s, sub) ==
    \E n \in 1 .. Len(s) - Len(sub) + 1 : SubSeq(s, n, n + Len(sub) - 1) = sub

\* s.startswith(sub)
StartsWith(s, sub) == Len(sub) <= Len(s) /\ SubSeq(s, 1, Len(sub)) = sub

\* model_name.lower().startswith("claude")   (lm.py:276)
IsClaude(name) == StartsWith(Lower(name), <<"c", "l", "a", "u", "d", "e">>)

\* A different test: the name is not lowered first.
IsGptCaseSensitive(name) == Contains(name, <<"g", "p", "t">>)

\* "gpt" in self.model.lower()   (lm.py:379)
IsGpt(name) == Contains(Lower(name), <<"g", "p", "t">>)

\* ------------------------------------------------------------------- dicts
\* A dict is a function from its keys.
EmptyDict == << >>

\* {**d, **e}   (lm.py:378, 394)
Merge(d, e) ==
    [k \in DOMAIN d \cup DOMAIN e |-> IF k \in DOMAIN e THEN e[k] ELSE d[k]]

\* d without the key k: d.pop(k, None) (lm.py:380), and the comprehension
\* {k: v for k, v in args.items() if k != "max_tokens"} (lm.py:178).
Without(d, key) == [k \in DOMAIN d \ {key} |-> d[k]]

\* d[k] = v   (lm.py:182, 190, 192)
Put(d, key, v) == [k \in DOMAIN d \cup {key} |-> IF k = key THEN v ELSE d[k]]

\* The default args a gateway is built with and the args of a call: either
\* sets temperature and max_tokens, or leaves them out.
DefaultArgs == {EmptyDict, [max_tokens |-> 100, temperature |-> 0]}
CallArgs == {EmptyDict, [max_tokens |-> 200], [temperature |-> 1]}
ArgKeys == {"max_tokens", "temperature"}

\* ------------------------------------------------------------ conversations
MaxMessages == 2              \* longest conversation handed to a call

Message(role, content) == [role |-> role, content |-> content]

\* A user turn, two system messages, and a system message of empty text.
MessageKinds ==
    { Message("user", PyStr(<<"Hi">>)),
      Message("system", PyStr(<<"Be brief.">>)),
      Message("system", PyStr(<<"Be exact.">>)),
      Message("system", PyStr(<< >>)) }

Conversations == UNION {[1 .. n -> MessageKinds] : n \in 1 .. MaxMessages}

\* The truth value of an optional str: None and "" are false.
Truthy(v) == v # PyNone /\ v.v # << >>

\* The loop over the conversation (lm.py:157-167): every system message is
\* taken out and its content kept in system_message, the others are copied
\* in order.
RECURSIVE ConvertMessages(_, _, _)
ConvertMessages(msgs, system_message, anthropic_messages) ==
    IF msgs = << >>
    THEN [system_message |-> system_message, anthropic_messages |-> anthropic_messages]
    ELSE IF Head(msgs).role = "system"
    THEN ConvertMessages(Tail(msgs), Head(msgs).content, anthropic_messages)
    ELSE ConvertMessages(Tail(msgs), system_message,
                         Append(anthropic_messages,
                                Message(Head(msgs).role, Head(msgs).content)))

MaxTokensDefault == 32768     \* lm.py:171
Timeout == 600                \* lm.py:177

\* The directive of the schema, as one piece after two newlines (lm.py:188).
DIRECTIVE == "You must respond with valid JSON matching this schema: ..."
JsonInstruction == <<NL, NL, DIRECTIVE>>

\* A different adapter: the directive replaces the system text.
SchemaSystemDirectiveOnly(system_message) == PyStr(Strip(JsonInstruction))

\* The system text of a request with a schema (lm.py:189-192).
SchemaSystem(system_message) ==
    IF Truthy(system_message)
    THEN PyStr(system_message.v \o JsonInstruction)
    ELSE PyStr(Strip(JsonInstruction))

\* The fixed entries of call_args (lm.py:173-177).
AnthropicFixed(name, anthropic_messages) ==
    [model |-> name, messages |-> anthropic_messages,
     max_tokens |-> MaxTokensDefault, timeout |-> Timeout]

\* call_args of completion_anthropic (lm.py:171-192).
AnthropicCallArgs(name, system_message, anthropic_messages, json_schema, args) ==
    LET base == Merge(AnthropicFixed(name, anthropic_messages),
                      Without(args, "max_tokens"))
        with_system == IF Truthy(system_message)
                       THEN Put(base, "system", system_message) ELSE base
    IN IF json_schema # "None"
       THEN Put(with_system, "system", SchemaSystem(system_message))
       ELSE with_system

\* A schema that is an empty dict: not None, and false as a condition.
EMPTYSCHEMA == "Empty"

\* response_format of completion_openai (lm.py:51-59); elif json_schema
\* (lm.py:53) holds of a schema that is neither None nor empty.
ResponseFormat(json_mode, json_schema) ==
    IF json_mode THEN [type |-> "json_object"]
    ELSE IF json_schema \notin {"None", EMPTYSCHEMA}
    THEN [type |-> "json_schema", json_schema |-> json_schema]
    ELSE [type |-> "text"]

\* A slip of the request: the tool entries are sent whether or not tools
\* were asked for.
ToolFieldsAlways(tools) ==
    [tools |-> tools, tool_choice |-> "required", parallel_tool_calls |-> FALSE]

\* The tool entries of the request (lm.py:65-73).
ToolFields(tools) ==
    IF tools # {}
    THEN [tools |-> tools, tool_choice |-> "required", parallel_tool_calls |-> FALSE]
    ELSE EmptyDict

\* The keyword arguments of client.chat.completions.create (lm.py:61-75).
OpenAICallArgs(name, messages, json_mode, json_schema, tools, args) ==
    Merge(Merge([model |-> name, messages |-> messages,
                 response_format |-> ResponseFormat(json_mode, json_schema)],
                ToolFields(tools)),
          args)

\* ------------------------------------------------------------ _get_client
\* The environment variables _get_client reads (lm.py:277, 285, 294-296):
\* each unset (None) or set to a text, which may be empty.  The endpoint and
\* the key of the managed cloud are those named after the model.
URL == PyStr(<<"http://localhost:8000/v1">>)
SECRET == PyStr(<<"secret">>)
ENDPOINT == PyStr(<<"https://cloud/?api-version=", "2024">>)
ON == PyStr(<<"1">>)
OFF == PyStr(<<"0">>)
EMPTY == PyStr(<< >>)
PLACEHOLDER == PyStr(<<"not-needed">>)

\* An environment is a dict of the variables that are set.
Settings ==
    [ANTHROPIC_API_KEY : {PyNone, EMPTY, SECRET},
     LOCAL_MODEL_API_BASE : {PyNone, EMPTY, URL},
     AZURE_OPENAI : {PyNone, OFF, ON},
     AZURE_OPENAI_ENDPOINT : {PyNone, ENDPOINT},
     AZURE_OPENAI_API_KEY : {PyNone, SECRET}]
Environs ==
    {[k \in {n \in DOMAIN e : e[n] # PyNone} |-> e[k]] : e \in Settings}

\* An environment with the Anthropic key and nothing else.
PlainEnviron == [ANTHROPIC_API_KEY |-> SECRET]

\* os.getenv(name)
GetEnv(env, name) == IF name \in DOMAIN env THEN env[name] ELSE PyNone

\* A client object: its class and the keyword arguments it was built with.
Client(class, kwargs) == Put(kwargs, "class", class)
NoClient == [class |-> "None"]

Built(cl) == [ok |-> TRUE, client |-> cl, type |-> "None"]
Refused(type) == [ok |-> FALSE, client |-> NoClient, type |-> type]

\* A different resolver: no key is asked of a Claude model.
AnthropicKeyNeverMissing(env) == FALSE

\* not api_key   (lm.py:277-278)
AnthropicKeyMissing(env) == ~Truthy(GetEnv(env, "ANTHROPIC_API_KEY"))

\* A different resolver: the local endpoint takes every other model.
LocalAppliesToAll(name, env) == Truthy(GetEnv(env, "LOCAL_MODEL_API_BASE"))

\* local_api_base and 'gpt' not in model_name   (lm.py:285-286): the test
\* of the name is on the name as given, not lowered.
LocalApplies(name, env) ==
    /\ Truthy(GetEnv(env, "LOCAL_MODEL_API_BASE"))
    /\ ~Contains(name, <<"g", "p", "t">>)

\* os.getenv("AZURE_OPENAI", "0") == "1"   (lm.py:294)
AzureEnabled(env) == GetEnv(env, "AZURE_OPENAI") = ON

\* endpoint.split("=")[-1]   (lm.py:304)
ApiVersion(endpoint) == PyStr(<<endpoint.v[Len(endpoint.v)]>>)

\* _get_client(model_name)   (lm.py:264-313)
GetClient(name, env) ==
    IF IsClaude(name)
    THEN IF AnthropicKeyMissing(env)
         THEN Refused("ValueError")
         ELSE Built(Client("AsyncAnthropic",
                           [api_key |-> GetEnv(env, "ANTHROPIC_API_KEY")]))
    ELSE IF LocalApplies(name, env)
    THEN Built(Client("AsyncOpenAI",
                      [base_url |-> GetEnv(env, "LOCAL_MODEL_API_BASE"),
                       api_key |-> PLACEHOLDER]))
    ELSE IF AzureEnabled(env)
    THEN LET endpoint == GetEnv(env, "AZURE_OPENAI_ENDPOINT")
             api_key == GetEnv(env, "AZURE_OPENAI_API_KEY")
         IN IF endpoint = PyNone \/ api_key = PyNone
            THEN Refused("AssertionError")
            ELSE Built(Client("AsyncAzureOpenAI",
                              [azure_endpoint |-> endpoint, api_key |-> api_key,
                               api_version |-> ApiVersion(endpoint)]))
    ELSE Built(Client("AsyncOpenAI", EmptyDict))

\* is_openai, is_anthropic   (lm.py:340-344)
AdapterOf(cl) ==
    IF cl.class = "AsyncAnthropic" THEN "anthropic"
    ELSE IF cl.class \in {"AsyncOpenAI", "AsyncAzureOpenAI"} THEN "openai"
    ELSE "none"

\* -------------------------------------------------------------------- state
VARIABLES
    family,           \* the client _get_client resolved: "openai" or "anthropic"
    max_concurrency,  \* LM.max_concurrency
    sem_value,        \* free units of LM.semaphore
    waiters,          \* calls blocked in LM.semaphore.acquire, in arrival order
    workload,         \* the requests callers make of this gateway
    pc,               \* where each call is: idle, waiting, calling, sleeping,
                      \* returned, raised; parsing in LM.json
    req,              \* the request of each call
    i,                \* loop index of the retry loop
    backoff,          \* current delay of the retry loop
    msg_bound,        \* whether the local msg of completion_openai is bound
    cause,            \* the exception of the attempt that ended the call
    result,           \* the value returned to the caller
    error,            \* the exception that reached the caller
    reply,            \* the reply the returned value was decoded from
    sleeps,           \* the delays slept so far, in order
    calls_made,       \* network calls issued so far
    acquired,         \* times the call acquired a semaphore unit
    released,         \* times the call released a semaphore unit
    key,              \* the key argument of each call (lm.py:372)
    probe_timings,    \* monitor: latency samples logged under "lm/" + PROBE
    probe_usages,     \* monitor: token-usage records logged under PROBE
    probe_steps,      \* the steps of the current attempt of the probed call
    sent_replies,     \* replies the backend delivered to the probed call
    sent_usages,      \* those of them that carried usage figures
    model,            \* LM.model
    environ,          \* os.environ, as far as _get_client reads it
    client,           \* LM.client
    stage,            \* the gateway: unbuilt, failed, ready, calling
    heap,             \* the objects of the call in progress: the caller's,
                      \* and the locals of LM.__call__ and of the adapter
    given,            \* the caller's objects as they were handed over
    sent,             \* the keyword arguments of each network call of the
                      \* current call, in order
    requests,         \* calls made of the gateway so far
    fenced,           \* a JSON body and the prose around its fence
    parsed            \* what the adapter decodes from each wrapping of it

vars ==
    <<family, max_concurrency, sem_value, waiters, workload, pc, req, i, backoff,
      msg_bound, cause, result, error, reply, sleeps, calls_made, acquired,
      released, key, probe_timings, probe_usages, probe_steps, sent_replies,
      sent_usages, model, environ, client, stage, heap, given, sent, requests,
      fenced, parsed>>

gateway == <<family, max_concurrency, workload>>

\* What the monitor holds and what the backend has delivered.
records == <<probe_timings, probe_usages, sent_replies, sent_usages>>

\* The calls in flight and their bookkeeping.
calls ==
    <<sem_value, waiters, pc, req, i, backoff, msg_bound, cause, result, error,
      reply, sleeps, calls_made, acquired, released, key, records, probe_steps>>

\* The construction of the gateway and the arguments of its network calls.
wiring == <<model, environ, client, stage, heap, given, sent, requests>>

\* The decoding of fenced replies.
decoding == <<fenced, parsed>>

\* A run serves one kind of request; the calls of a run differ in what the
\* backend answers and in how they interleave.
Workloads == {{r} : r \in Requests}

\* The key of a call names the monitor's records of it (lm.py:78, 84, 197,
\* 202): "general" unless the caller passes one (lm.py:372).  Of the
\* monitor's records the model keeps those under the key PROBE.
GENERAL == "general"
PROBE == "probe"

\* The steps of an attempt up to its network call: the request is built
\* (lm.py:51-59, lm.py:156-192) and the client is called (lm.py:61, 194).
AttemptStart == <<"normalize", "call">>

\* Nothing is logged and nothing was delivered yet.
NoRecords ==
    /\ probe_timings = 0
    /\ probe_usages = 0
    /\ probe_steps = << >>
    /\ sent_replies = 0
    /\ sent_usages = 0

\* The semaphore is free and no call was made (lm.py:325).
NoCalls ==
    /\ sem_value = max_concurrency
    /\ waiters = << >>
    /\ pc = [c \in Calls |-> "idle"]
    /\ req = [c \in Calls |-> NoRequest]
    /\ i = [c \in Calls |-> 0]
    /\ backoff = [c \in Calls |-> 0]
    /\ msg_bound = [c \in Calls |-> FALSE]
    /\ cause = [c \in Calls |-> NoError]
    /\ result = [c \in Calls |-> NoResult]
    /\ error = [c \in Calls |-> NoError]
    /\ reply = [c \in Calls |-> NoReply]
    /\ sleeps = [c \in Calls |-> << >>]
    /\ calls_made = [c \in Calls |-> 0]
    /\ acquired = [c \in Calls |-> 0]
    /\ released = [c \in Calls |-> 0]

\* The objects a call works on.  The first five are the caller's: the
\* default_kwargs handed to LM.__init__ (lm.py:327 keeps the caller's dict),
\* and the arguments of LM.__call__ (lm.py:366-374).  The others are locals
\* of LM.__call__ (lm.py:378, 394) and of the adapter (lm.py:43, 148,
\* 157-158, 173).
CallerOwned == {"default_kwargs", "kwargs", "messages", "tools", "json_schema"}

\* Between calls the gateway holds the default args alone.
NoHeap(default_kwargs) == [default_kwargs |-> default_kwargs]

Given(h) == [k \in CallerOwned \cap DOMAIN h |-> h[k]]

\* A JSON body, the prose before and after its fence, and the whitespace
\* between the fence and the body.
Bodies == {<<OBJ>>, <<OBJ2>>, <<TRUNC>>}
FencedInputs ==
    [body : Bodies, before : {<< >>, <<PROSE, NL>>}, after : {<< >>, <<NL, PROSE>>},
     gap : {<< >>, <<NL>>}]
Wrappings == {"json", "bare", "none"}
NoFenced == EmptyDict

\* No call was prepared and nothing was decoded.
NoWiring(default_kwargs) ==
    /\ heap = NoHeap(default_kwargs)
    /\ given = Given(heap)
    /\ sent = << >>
    /\ requests = 0

NoDecoding ==
    /\ fenced = NoFenced
    /\ parsed = EmptyDict

\* LM.__init__ (lm.py:317-327) has built the gateway for the model name.
BuiltFor(name) ==
    /\ model = name
    /\ environ = PlainEnviron
    /\ client = GetClient(name, PlainEnviron).client
    /\ stage = "ready"

\* LM.__init__ (lm.py:317-327), before any call.
Constructed ==
    /\ family \in {"openai", "anthropic"}
    /\ max_concurrency \in 1 .. MaxConcurrencyBound
    /\ workload \in Workloads
    /\ NoCalls
    /\ BuiltFor(IF family = "anthropic" THEN ClaudeLower ELSE GptLower)

\* Every caller leaves the key at its default.
Init ==
    /\ Constructed
    /\ key = [c \in Calls |-> GENERAL]
    /\ NoRecords
    /\ NoWiring(EmptyDict)
    /\ NoDecoding

\* The first caller passes the key PROBE; the gateway admits one call at a
\* time.
InitProbe ==
    /\ Constructed
    /\ max_concurrency = 1
    /\ key = [c \in Calls |-> IF c = 1 THEN PROBE ELSE GENERAL]
    /\ NoRecords
    /\ NoWiring(EmptyDict)
    /\ NoDecoding

\* One caller at a time, followed from the arguments of LM.__call__ to the
\* keyword arguments of the network calls.
Quiet ==
    /\ max_concurrency = 1
    /\ workload = {NoRequest}
    /\ NoCalls
    /\ key = [c \in Calls |-> GENERAL]
    /\ NoRecords

\* A gateway built for any model name, with any default args.
InitSend ==
    /\ \E name \in ModelNames : BuiltFor(name)
    /\ family = AdapterOf(client)
    /\ Quiet
    /\ \E d \in DefaultArgs : NoWiring(d)
    /\ NoDecoding

\* The gateway is about to be built, for any model name in any environment.
InitBuild ==
    /\ model \in ModelNames
    /\ environ \in Environs
    /\ client = NoClient
    /\ family = "none"
    /\ stage = "unbuilt"
    /\ Quiet
    /\ NoWiring(EmptyDict)
    /\ NoDecoding

\* An Anthropic-style gateway and a reply text to decode.
InitDecode ==
    /\ BuiltFor(ClaudeLower)
    /\ family = AdapterOf(client)
    /\ Quiet
    /\ NoWiring(EmptyDict)
    /\ fenced \in FencedInputs
    /\ parsed = EmptyDict

\* ------------------------------------------------------------ the semaphore
\* A slip of the gate: a unit is handed out whether or not one is free.
LockedNever(value, queue) == FALSE

\* asyncio.Semaphore.locked(): no unit can be taken at once, because none is
\* free or because earlier callers are queued (async with, lm.py:375).
Locked(value, queue) == value = 0 \/ queue # << >>

\* An attempt starts (lm.py:48-61, lm.py:153-194).
StartAttempt(c) ==
    probe_steps' = IF key[c] = PROBE THEN AttemptStart ELSE probe_steps

\* A different gateway: the delay is kept on the gateway, and a call starts
\* from the delay the call before it has reached.
BeginFromLastDelay(c) ==
    /\ pc' = [pc EXCEPT ![c] = "calling"]
    /\ i' = [i EXCEPT ![c] = 0]
    /\ backoff' = [backoff EXCEPT ![c] =
                      IF c > 1 /\ backoff[c - 1] > InitialBackoff
                      THEN backoff[c - 1] ELSE InitialBackoff]
    /\ calls_made' = [calls_made EXCEPT ![c] = 1]
    /\ acquired' = [acquired EXCEPT ![c] = @ + 1]
    /\ StartAttempt(c)

\* The first iteration of the retry loop, up to its network call
\* (lm.py:45-61, lm.py:150-194): the call now holds a unit.
Begin(c) ==
    /\ pc' = [pc EXCEPT ![c] = "calling"]
    /\ i' = [i EXCEPT ![c] = 0]
    /\ backoff' = [backoff EXCEPT ![c] = InitialBackoff]
    /\ calls_made' = [calls_made EXCEPT ![c] = 1]
    /\ acquired' = [acquired EXCEPT ![c] = @ + 1]
    /\ StartAttempt(c)

\* LM.__call__ is called with request r (lm.py:366-375): the call takes a
\* unit and starts, or queues on the semaphore.  Calls are numbered in the
\* order they are made.
Invoke(c, r) ==
    /\ pc[c] = "idle"
    /\ \A b \in Calls : b < c => pc[b] # "idle"
    /\ req' = [req EXCEPT ![c] = r]
    /\ IF ~Locked(sem_value, waiters)
       THEN /\ sem_value' = sem_value - 1
            /\ Begin(c)
            /\ UNCHANGED waiters
       ELSE /\ waiters' = Append(waiters, c)
            /\ pc' = [pc EXCEPT ![c] = "waiting"]
            /\ UNCHANGED <<sem_value, i, backoff, calls_made, acquired, probe_steps>>
    /\ UNCHANGED <<gateway, msg_bound, cause, result, error, reply, sleeps, released,
                   key, records, wiring, decoding>>

\* The first queued call is woken once a unit is free (lm.py:375).
Admit(c) ==
    /\ pc[c] = "waiting"
    /\ waiters # << >> /\ Head(waiters) = c
    /\ sem_value > 0
    /\ sem_value' = sem_value - 1
    /\ waiters' = Tail(waiters)
    /\ Begin(c)
    /\ UNCHANGED <<gateway, req, msg_bound, cause, result, error, reply, sleeps,
                   released, key, records, wiring, decoding>>

\* --------------------------------------------------------- the retry loop
\* A slip of the schedule: the delay doubles without the cap.
NextBackoffUncapped(b) == b * 2

\* backoff = min(30, backoff * 2)   (lm.py:129, lm.py:228)
NextBackoff(b) == Min(BackoffCap, b * 2)

\* The JSON diagnostics of the handler read msg.content (lm.py:121-123);
\* they raise UnboundLocalError when msg was never bound.  The Anthropic
\* handler tests 'content' in locals() first (lm.py:220-222).
HandlerRaises(fam, e, bound) == fam = "openai" /\ IsJsonTyped(e) /\ ~bound

\* A different handler: the last exception wrapped in a GatewayError.
ReraisedWrapped(e) == Error("GatewayError", e.where, e.at)

\* The bare raise of the handler (lm.py:132, lm.py:231): the exception
\* being handled, itself.
Reraised(e) == e

\* A different gateway: the unit is released by hand after the adapter
\* returns, and an exception skips the release.
RaiseKeepingUnit(c, e, cur) ==
    /\ pc' = [pc EXCEPT ![c] = "raised"]
    /\ error' = [error EXCEPT ![c] = e]
    /\ cause' = [cause EXCEPT ![c] = cur]
    /\ UNCHANGED <<sem_value, released, sleeps>>

\* Exception e leaves LM.__call__ while the attempt's exception cur is being
\* handled: the async with releases the unit (lm.py:375).
Raise(c, e, cur) ==
    /\ pc' = [pc EXCEPT ![c] = "raised"]
    /\ error' = [error EXCEPT ![c] = e]
    /\ cause' = [cause EXCEPT ![c] = cur]
    /\ sem_value' = sem_value + 1
    /\ released' = [released EXCEPT ![c] = @ + 1]
    /\ UNCHANGED sleeps

\* The except clause (lm.py:120-132, lm.py:219-231) for exception e of the
\* current attempt; bound tells whether msg is bound when it runs.
Fail(c, e, bound) ==
    /\ msg_bound' = [msg_bound EXCEPT ![c] = bound]
    /\ IF HandlerRaises(family, e, bound)
       THEN Raise(c, Error("UnboundLocalError", "handler", i[c]), e)
       ELSE IF i[c] < Tries - 1
       THEN /\ pc' = [pc EXCEPT ![c] = "sleeping"]
            /\ sleeps' = [sleeps EXCEPT ![c] = Append(@, backoff[c])]
            /\ UNCHANGED <<error, cause, sem_value, released>>
       ELSE Raise(c, Reraised(e), e)
    /\ UNCHANGED <<gateway, waiters, req, i, backoff, result, reply, calls_made,
                   acquired, key, wiring, decoding>>

\* The network call raises (lm.py:61, lm.py:194).
ClientRaises(c, type) ==
    /\ pc[c] = "calling"
    /\ Fail(c, Error(type, "client", i[c]), msg_bound[c])
    /\ UNCHANGED <<records, probe_steps>>

Decode(fam, r, rep) ==
    IF fam = "openai" THEN DecodeOpenAI(r, rep) ELSE DecodeAnthropic(r, rep)

\* A different gateway: the unit is released in the handler only, and a
\* call that returns keeps it.
ReturnKeepingUnit(c, val, rep, bound) ==
    /\ pc' = [pc EXCEPT ![c] = "returned"]
    /\ msg_bound' = [msg_bound EXCEPT ![c] = bound]
    /\ result' = [result EXCEPT ![c] = val]
    /\ reply' = [reply EXCEPT ![c] = rep]
    /\ UNCHANGED <<gateway, sem_value, released, waiters, req, i, backoff, cause,
                   error, sleeps, calls_made, acquired, key, wiring, decoding>>

\* The decoded value is returned and the async with releases the unit
\* (lm.py:106, 117, 119, 215, 217; lm.py:375).
Return(c, val, rep, bound) ==
    /\ pc' = [pc EXCEPT ![c] = "returned"]
    /\ msg_bound' = [msg_bound EXCEPT ![c] = bound]
    /\ result' = [result EXCEPT ![c] = val]
    /\ reply' = [reply EXCEPT ![c] = rep]
    /\ sem_value' = sem_value + 1
    /\ released' = [released EXCEPT ![c] = @ + 1]
    /\ UNCHANGED <<gateway, waiters, req, i, backoff, cause, error, sleeps,
                   calls_made, acquired, key, wiring, decoding>>

\* A different adapter: the usage is logged once the reply is decoded.
UsageLoggedOnSuccess(rep, ok) == ok

\* Whether the attempt reaches monitor.log_token_usage (lm.py:79-84,
\* lm.py:200-202): the usage figures of the reply are read and logged
\* before the reply is decoded, whether or not the decoding then succeeds.
UsageLogged(rep, ok) == rep.usage

\* A different adapter: the reply is decoded before its usage is logged.
StepsOfReplyDecodeFirst(rep) ==
    <<"timing">> \o (IF rep.usage THEN <<"decode", "usage">> ELSE << >>)

\* The steps of an attempt after its network call delivered rep, in the
\* order of the code: log_timing_event (lm.py:78, 197), the usage figures
\* and log_token_usage (lm.py:79-84, 200-202), the decoding (lm.py:86-119,
\* 204-217).  A reply without usage figures raises before anything else.
StepsOfReply(rep) ==
    <<"timing">> \o (IF rep.usage THEN <<"usage", "decode">> ELSE << >>)

\* A different monitor: it keeps the latest sample in place of the list.
LogTimingEventLatestOnly(samples) == 1

\* monitor.log_timing_event and monitor.log_token_usage of
\* skillweaver.util.perfmon, called at lm.py:78, 84, 197, 202: each call
\* appends one record to those the monitor holds under the key.
LogTimingEvent(samples) == samples + 1
LogTokenUsage(usages) == usages + 1

\* What the attempt of call c logs for reply rep; ok tells whether the
\* decoding succeeds.  No await separates the reply from the two log calls
\* (lm.py:77-84, 196-202), so no other call runs between them.
Monitor(c, rep, ok) ==
    IF key[c] = PROBE
    THEN /\ probe_timings' = LogTimingEvent(probe_timings)
         /\ probe_usages' =
                IF UsageLogged(rep, ok) THEN LogTokenUsage(probe_usages) ELSE probe_usages
         /\ probe_steps' = probe_steps \o StepsOfReply(rep)
         /\ sent_replies' = sent_replies + 1
         /\ sent_usages' = sent_usages + (IF rep.usage THEN 1 ELSE 0)
    ELSE UNCHANGED <<records, probe_steps>>

\* The network call delivers a reply: the adapter logs it, decodes it and
\* returns the value, or the decoding raises (lm.py:61-119, lm.py:194-217).
ClientReplies(c, rep) ==
    /\ pc[c] = "calling"
    /\ LET d == Decode(family, req[c], rep)
       IN /\ Monitor(c, rep, d.ok)
          /\ IF d.ok
             THEN Return(c, d.val, rep, msg_bound[c] \/ d.msg)
             ELSE Fail(c, Error(d.type, d.where, i[c]), msg_bound[c] \/ d.msg)

\* The backoff sleep ends: the delay doubles up to the cap and the next
\* iteration issues its network call (lm.py:128-129, 47-61; 227-228, 152-194).
WakeUp(c) ==
    /\ pc[c] = "sleeping"
    /\ backoff' = [backoff EXCEPT ![c] = NextBackoff(@)]
    /\ i' = [i EXCEPT ![c] = @ + 1]
    /\ calls_made' = [calls_made EXCEPT ![c] = @ + 1]
    /\ pc' = [pc EXCEPT ![c] = "calling"]
    /\ StartAttempt(c)
    /\ UNCHANGED <<gateway, sem_value, waiters, req, msg_bound, cause, result,
                   error, reply, sleeps, acquired, released, key, records,
                   wiring, decoding>>

Next ==
    \E c \in Calls :
        \/ \E r \in workload : Invoke(c, r)
        \/ Admit(c)
        \/ \E t \in ClientErrorTypes : ClientRaises(c, t)
        \/ \E rep \in Replies(family, req[c]) : ClientReplies(c, rep)
        \/ WakeUp(c)

Spec == Init /\ [][Next]_vars

\* The gateway with one probed call.
SpecProbe == InitProbe /\ [][Next]_vars

\* ------------------------------------------------ the arguments of a call
\* A slip of LM.__call__: the per-call args are merged into the gateway's
\* own dict.
CombinedArgsInPlace == "default_kwargs"

\* The object LM.__call__ binds combined_args to: a new dict (lm.py:378, 394).
CombinedArgs == "combined_args"

\* combined_args of LM.__call__ (lm.py:376-380, 393-394): the default args
\* overridden by the args of the call, without max_tokens for a GPT model
\* of the OpenAI-style adapter.
Combine(h) ==
    LET merged == Put(h, CombinedArgs, Merge(h.default_kwargs, h.kwargs))
    IN IF family = "openai" /\ IsGpt(model)
       THEN [merged EXCEPT ![CombinedArgs] = Without(@, "max_tokens")]
       ELSE merged

\* args = {**args}   (lm.py:40-43, lm.py:145-148)
EnterAdapter(h) == Put(h, "args", h[CombinedArgs])

\* What an iteration of the retry loop builds before its network call: the
\* Anthropic-style adapter converts the conversation and fills call_args
\* (lm.py:156-192); the OpenAI-style one builds no object of its own
\* (lm.py:51-59).
BuildRequest(h) ==
    IF family = "anthropic"
    THEN LET cv == ConvertMessages(h.messages, PyNone, << >>)
         IN Merge(h, [system_message |-> cv.system_message,
                      anthropic_messages |-> cv.anthropic_messages,
                      call_args |-> AnthropicCallArgs(model, cv.system_message,
                                                      cv.anthropic_messages,
                                                      h.json_schema, h.args)])
    ELSE h

\* The keyword arguments of the network call (lm.py:61-75, lm.py:194).
Wire(h) ==
    IF family = "anthropic"
    THEN h.call_args
    ELSE OpenAICallArgs(model, h.messages, h.json_mode, h.json_schema, h.tools,
                        h.args)

\* LM.__init__ (lm.py:317-327): the client is resolved, or the constructor
\* raises and no gateway exists.
Construct ==
    /\ stage = "unbuilt"
    /\ LET g == GetClient(model, environ)
       IN /\ client' = g.client
          /\ family' = AdapterOf(g.client)
          /\ stage' = IF g.ok THEN "ready" ELSE "failed"
    /\ UNCHANGED <<max_concurrency, workload, calls, model, environ, heap, given,
                   sent, requests, decoding>>

\* LM.__call__ with the conversation conv, the request r and the args kw,
\* up to the first network call (lm.py:366-405, 40-75, 145-194).
Send(kw, conv, r) ==
    /\ stage = "ready"
    /\ requests < NumCalls
    /\ LET handed == Merge(heap, [kwargs |-> kw, messages |-> conv,
                                  tools |-> r.tools, json_mode |-> r.json_mode,
                                  json_schema |-> r.json_schema])
           h == BuildRequest(EnterAdapter(Combine(handed)))
       IN /\ given' = Given(handed)
          /\ heap' = h
          /\ sent' = <<Wire(h)>>
    /\ stage' = "calling"
    /\ requests' = requests + 1
    /\ UNCHANGED <<gateway, calls, model, environ, client, decoding>>

\* The attempt fails and the loop comes round to the next network call
\* (lm.py:120-129, 47-75; lm.py:219-228, 152-194).
Resend ==
    /\ stage = "calling"
    /\ Len(sent) < Tries
    /\ heap' = BuildRequest(heap)
    /\ sent' = Append(sent, Wire(heap'))
    /\ UNCHANGED <<gateway, calls, model, environ, client, stage, given, requests,
                   decoding>>

\* The call returns or raises (lm.py:106-119, 132; lm.py:215-217, 231): its
\* arguments and its locals are out of the gateway's reach, the default args
\* stay.
Finish ==
    /\ stage = "calling"
    /\ stage' = "ready"
    /\ heap' = NoHeap(heap.default_kwargs)
    /\ given' = [default_kwargs |-> given.default_kwargs]
    /\ sent' = << >>
    /\ UNCHANGED <<gateway, calls, model, environ, client, requests, decoding>>

NextSend ==
    \/ \E kw \in CallArgs, conv \in Conversations, r \in Requests : Send(kw, conv, r)
    \/ Resend
    \/ Finish

\* The arguments of the network calls of a built gateway.
SpecSend == InitSend /\ [][NextSend]_vars

\* The request a caller makes of a gateway just built.
Greeting == <<Message("user", PyStr(<<"Hi">>))>>

NextBuild ==
    \/ Construct
    \/ Send(EmptyDict, Greeting, NoRequest)
    \/ Resend
    \/ Finish

\* The construction of a gateway, and its first calls.
SpecBuild == InitBuild /\ [][NextBuild]_vars

\* ----------------------------------------------------- fenced reply texts
\* A body in its wrapping, with the prose outside the fence.
Wrap(w, f) ==
    IF w = "json"
    THEN f.before \o <<FENCE, JSONTAG>> \o f.gap \o f.body \o f.gap \o <<FENCE>> \o f.after
    ELSE IF w = "bare"
    THEN f.before \o <<FENCE>> \o f.gap \o f.body \o f.gap \o <<FENCE>> \o f.after
    ELSE f.body

SchemaRequest == [tools |-> {}, json_mode |-> FALSE, json_schema |-> "Schema"]

\* The Anthropic-style adapter decodes the reply whose text is the body in
\* wrapping w (lm.py:204-217).
DecodeWrapped(w) ==
    /\ w \notin DOMAIN parsed
    /\ parsed' = Put(parsed, w,
                     DecodeAnthropic(SchemaRequest,
                                     Reply(TRUE, FALSE, << >>, PyStr(Wrap(w, fenced)))))
    /\ UNCHANGED <<gateway, calls, wiring, fenced>>

NextDecode == \E w \in Wrappings : DecodeWrapped(w)

SpecDecode == InitDecode /\ [][NextDecode]_vars

\* ------------------------------------------------------------------- types
TypeOK ==
    /\ family \in {"openai", "anthropic", "none"}
    /\ stage \in {"unbuilt", "failed", "ready", "calling"}
    /\ model \in ModelNames
    /\ requests \in 0 .. NumCalls
    /\ Len(sent) <= Tries
    /\ max_concurrency \in 1 .. MaxConcurrencyBound
    /\ sem_value \in 0 .. max_concurrency
    /\ workload \in Workloads
    /\ \A c \in Calls :
        /\ pc[c] \in {"idle", "waiting", "calling", "sleeping", "returned", "raised",
                     "parsing"}
        /\ req[c] \in Requests
        /\ i[c] \in 0 .. Tries - 1
        /\ msg_bound[c] \in BOOLEAN

\* ------------------------------------------------------------------ claims
InLoop(c) == pc[c] \in {"calling", "sleeping"}
Ended(c) == pc[c] \in {"returned", "raised"}
Holding(c) == acquired[c] > released[c]

RECURSIVE SeqSum(_)
SeqSum(s) == IF s = << >> THEN 0 ELSE Head(s) + SeqSum(Tail(s))

\* C1: the logical calls that have acquired a unit of the gateway's semaphore
\* and not yet released it (they await the backend, decode, or sleep in
\* backoff) are never more than max_concurrency.
C1_GateNeverOverAdmits ==
    /\ Cardinality({c \in Calls : Holding(c)}) <= max_concurrency
    /\ \A c \in Calls : InLoop(c) => Holding(c)

\* The gate is full, one holder of a unit sleeps in backoff, and a caller
\* queues behind it.
C1_Witness ==
    /\ Cardinality({c \in Calls : Holding(c)}) = max_concurrency
    /\ \E c \in Calls : pc[c] = "sleeping" /\ Holding(c)
    /\ \E c \in Calls : pc[c] = "waiting"

\* C2: a logical call acquires exactly one unit before its first attempt,
\* holds it through every attempt and every backoff sleep without releasing
\* and re-acquiring it, and releases it only after the retry loop returns a
\* result or raises on exhaustion (after the fifth attempt).
C2_UnitHeldUntilResultOrExhaustion ==
    /\ [](\A c \in Calls : InLoop(c) => acquired[c] = 1 /\ released[c] = 0)
    /\ [][\A c \in Calls :
            /\ acquired'[c] # acquired[c] =>
                 acquired[c] = 0 /\ calls_made[c] = 0 /\ acquired'[c] = 1
            /\ InLoop(c) /\ InLoop(c)' =>
                 acquired'[c] = acquired[c] /\ released'[c] = released[c]
            /\ released'[c] # released[c] =>
                 /\ released'[c] = 1
                 /\ \/ pc'[c] = "returned"
                    \/ pc'[c] = "raised" /\ calls_made[c] = 5]_vars

\* C3: a logical call makes at most 5 backend round trips: every attempt
\* issues exactly one network call, nothing follows the attempt that returns,
\* and nothing follows the fifth failure.
C3_AtMostFiveRoundTrips ==
    /\ [](\A c \in Calls :
            /\ calls_made[c] <= 5
            /\ (InLoop(c) \/ Ended(c)) => calls_made[c] = i[c] + 1
            /\ pc[c] = "sleeping" => calls_made[c] < 5)
    /\ [][\A c \in Calls :
            Ended(c) => pc'[c] = pc[c] /\ calls_made'[c] = calls_made[c]]_vars

\* A call has made its fifth round trip, and it failed.
C3_Witness == \E c \in Calls : pc[c] = "raised" /\ calls_made[c] = 5 /\ cause[c].at = 4

\* C4: the sleep after the N-th failed attempt lasts min(30, 4 * 2^(N-1)),
\* that is 4, 8, 16, 30; when all five attempts fail there are exactly four
\* sleeps, of 58 time-units in all, and none follows the fifth failure.
C4_BackoffSchedule ==
    \A c \in Calls :
        /\ \A n \in 1 .. Len(sleeps[c]) : sleeps[c][n] = Min(30, 4 * 2 ^ (n - 1))
        /\ Len(sleeps[c]) <= 4
        /\ pc[c] = "sleeping" => Len(sleeps[c]) = calls_made[c]
        /\ (pc[c] = "calling" \/ Ended(c)) => Len(sleeps[c]) = calls_made[c] - 1
        /\ (pc[c] = "raised" /\ calls_made[c] = 5) =>
             sleeps[c] = <<4, 8, 16, 30>> /\ SeqSum(sleeps[c]) = 58

\* All five attempts of a call failed, after four sleeps.
C4_Witness ==
    \E c \in Calls :
        pc[c] = "raised" /\ calls_made[c] = 5 /\ cause[c].at = 4 /\ Len(sleeps[c]) = 4

\* C5: when all five attempts of a call fail, the exception that reaches the
\* caller is the one the fifth attempt raised, unchanged.
C5_FifthErrorSurfacedUnchanged ==
    \A c \in Calls :
        (pc[c] = "raised" /\ calls_made[c] = 5) =>
            error[c] = cause[c] /\ error[c].at = 4

C7_NonFinalErrorsAreRetried ==
    \A c \in Calls : pc[c] = "raised" => calls_made[c] = 5 /\ cause[c].at = 4

\* C8: for a request with a non-empty tools list, on either backend, a
\* returned result carries a tool name, and the name is one of the requested.
C8_ToolNameIsRequested ==
    \A c \in Calls :
        (pc[c] = "returned" /\ req[c].tools # {}) =>
            result[c].variant = "ToolCall" /\ result[c].name \in req[c].tools

\* C9: the variant of a returned result is decided by the request: a tool
\* call when tools is non-empty, a decoded JSON object when json mode or a
\* schema is requested without tools, the raw reply text otherwise; a reply
\* without content and without tools is never returned.
C9_VariantMatchesRequest ==
    \A c \in Calls :
        pc[c] = "returned" =>
            /\ req[c].tools # {} =>
                 result[c].variant = "ToolCall" /\ result[c].value.py = "dict"
            /\ (req[c].tools = {} /\ WantsJson(req[c])) =>
                 result[c].variant = "Json" /\ result[c].value.py = "dict"
            /\ (req[c].tools = {} /\ ~WantsJson(req[c])) =>
                 result[c].variant = "Text" /\ result[c].value = reply[c].content
            /\ req[c].tools = {} => reply[c].content # PyNone

\* The text of a reply parses as JSON once the adapter has prepared it: as
\* it is for the OpenAI-style adapter, without fences for the Anthropic one.
ReplyParses(fam, rep) ==
    /\ rep.content.py = "str"
    /\ Strip(IF fam = "openai" THEN rep.content.v ELSE StripFences(rep.content.v))
         = <<OBJ>>

\* C10: for a request with a JSON schema or json mode and no tools, a
\* returned result is the outcome of a successful JSON parse of the reply:
\* a reply that does not parse is never returned, as raw text or otherwise.
C10_JsonResultIsParsedReply ==
    \A c \in Calls :
        (pc[c] = "returned" /\ req[c].tools = {} /\ WantsJson(req[c])) =>
            /\ ReplyParses(family, reply[c])
            /\ result[c].variant = "Json"
            /\ result[c].value = PyDict("answer=4")

\* A JSON request was answered at the third attempt, after two replies that
\* failed.
C10_Witness ==
    \E c \in Calls :
        /\ pc[c] = "returned" /\ req[c].tools = {} /\ WantsJson(req[c])
        /\ calls_made[c] = 3 /\ result[c].variant = "Json"

\* --------------------------------------------------- claims on the monitor
Probed(c) == key[c] = PROBE

IsPrefix(s, t) == Len(s) <= Len(t) /\ s = SubSeq(t, 1, Len(s))

\* The contract checks of the decoding (lm.py:90-117, lm.py:205-215).
DecodeFailures == {"tool_calls", "tool_name", "arguments", "content"}

ClaimedOrder == <<"normalize", "call", "decode", "usage">>
CodeOrder == <<"normalize", "call", "timing", "usage", "decode">>

SystemAt(conv) == {n \in DOMAIN conv : conv[n].role = "system"}
First(S) == CHOOSE n \in S : \A m \in S : n <= m
RemoveAt(seq, n) == SubSeq(seq, 1, n - 1) \o SubSeq(seq, n + 1, Len(seq))

\* C13: for the Anthropic-style backend the system instruction sent is the
\* content of the first system message of the conversation (nothing, when
\* there is none or its text is empty), and the messages sent are the
\* conversation without that one message, in order.
C13_FirstSystemMessageIsSent ==
    (family = "anthropic" /\ stage = "calling" /\ given.json_schema = "None") =>
        \A n \in DOMAIN sent :
            LET conv == given.messages
                at == SystemAt(conv)
            IN IF at = {}
               THEN "system" \notin DOMAIN sent[n] /\ sent[n].messages = conv
               ELSE /\ sent[n].messages = RemoveAt(conv, First(at))
                    /\ IF Truthy(conv[First(at)].content)
                       THEN /\ "system" \in DOMAIN sent[n]
                            /\ sent[n].system = conv[First(at)].content
                       ELSE "system" \notin DOMAIN sent[n]

Asked(k) ==
    IF k \in DOMAIN given.kwargs THEN given.kwargs[k] ELSE given.default_kwargs[k]
IsAsked(k) == k \in DOMAIN given.kwargs \cup DOMAIN given.default_kwargs

\* C16: for the Anthropic-style backend the max_tokens sent is the one the
\* caller supplies, in the call or in the default args, and 32768 only when
\* the caller supplies none.
C16_CallerMaxTokensIsSent ==
    (family = "anthropic" /\ stage = "calling") =>
        \A n \in DOMAIN sent :
            sent[n].max_tokens =
                IF IsAsked("max_tokens") THEN Asked("max_tokens") ELSE 32768

\* The entries of an OpenAI-style request that are not args.
OpenAIOwnKeys ==
    {"model", "messages", "response_format", "tools", "tool_choice",
     "parallel_tool_calls"}

\* C17: for the OpenAI-style backend the args sent are the default args
\* overridden key by key by those of the call, as they are, except that
\* max_tokens is left out exactly when the model name contains gpt in any
\* letter case; nothing else is sent and every attempt sends the same.
C17_ArgsPassedVerbatim ==
    (family = "openai" /\ stage = "calling") =>
        \A n \in DOMAIN sent :
            /\ DOMAIN sent[n] \subseteq OpenAIOwnKeys \cup ArgKeys
            /\ \A k \in ArgKeys :
                /\ k \in DOMAIN sent[n] <=>
                     /\ IsAsked(k)
                     /\ ~(k = "max_tokens" /\ model \in {GptLower, GptUpper})
                /\ k \in DOMAIN sent[n] => sent[n][k] = Asked(k)
            /\ sent[n] = sent[1]

\* A model named in capitals is asked with a default max_tokens and a
\* temperature of the call, and all five attempts were made.
C17_Witness ==
    /\ family = "openai" /\ stage = "calling" /\ model = GptUpper
    /\ Len(sent) = 5
    /\ "max_tokens" \in DOMAIN given.default_kwargs
    /\ "temperature" \in DOMAIN given.kwargs
    /\ "max_tokens" \notin DOMAIN sent[5]
    /\ sent[5].temperature = 1

\* C20: the caller's conversation, tools, schema and args of the call, and
\* the default args of the gateway, are at every moment as they were handed
\* over.
C20_CallerObjectsUnchanged ==
    /\ DOMAIN given = CallerOwned \cap DOMAIN heap
    /\ stage = "calling" => DOMAIN given = CallerOwned
    /\ \A k \in DOMAIN given : heap[k] = given[k]

\* The last call of a run has made its five attempts; max_tokens was left
\* out of the args sent, and is still in the default args.
C20_Witness ==
    /\ stage = "calling" /\ requests = NumCalls /\ Len(sent) = 5
    /\ "max_tokens" \in DOMAIN heap.default_kwargs
    /\ "max_tokens" \notin DOMAIN heap.args
    /\ "max_tokens" \notin DOMAIN sent[5]

\* ------------------------------------------------ claims on fenced replies
\* C15: the Anthropic-style adapter decodes the same object from a JSON
\* body in a fence tagged json, in a bare fence, and with no fence, whatever
\* prose surrounds the fence; a body that is not JSON fails in all three.
C15_FencesDecodeAlike ==
    /\ \A w, v \in DOMAIN parsed : parsed[w] = parsed[v]
    /\ \A w \in DOMAIN parsed :
        /\ parsed[w].ok <=> fenced.body # <<TRUNC>>
        /\ parsed[w].ok =>
             /\ parsed[w].val.variant = "Json"
             /\ parsed[w].val.value =
                  IF fenced.body = <<OBJ>> THEN PyDict("answer=4")
                  ELSE PyDict("answer=5")

\* A body with prose before and after its fence was decoded in all three
\* wrappings.
C15_Witness ==
    /\ DOMAIN parsed = Wrappings
    /\ fenced.body = <<OBJ2>> /\ fenced.before # << >> /\ fenced.after # << >>
    /\ \A w \in Wrappings : parsed[w].ok /\ parsed[w].val.value = PyDict("answer=5")

\* ---------------------------------------------- claims on the construction
ClaudeNames == {ClaudeLower, ClaudeMixed}
IsSet(name) == name \in DOMAIN environ
LocalSet == IsSet("LOCAL_MODEL_API_BASE") /\ environ.LOCAL_MODEL_API_BASE # EMPTY
AnthropicKeySet == IsSet("ANTHROPIC_API_KEY") /\ environ.ANTHROPIC_API_KEY # EMPTY
CloudOn == IsSet("AZURE_OPENAI") /\ environ.AZURE_OPENAI = ON
Redirected ==
    /\ client.class = "AsyncOpenAI"
    /\ "base_url" \in DOMAIN client
    /\ client.base_url = environ.LOCAL_MODEL_API_BASE
    /\ client.api_key = PLACEHOLDER
CloudLacking ==
    /\ CloudOn
    /\ ~IsSet("AZURE_OPENAI_ENDPOINT") \/ ~IsSet("AZURE_OPENAI_API_KEY")

\* C18: a gateway built for a model whose name starts with claude, in any
\* letter case, has the Anthropic-style client; one built for any other
\* model has an OpenAI-style client, and when the local endpoint is set
\* that client is the one of the local base URL with the placeholder key.
C18_LocalTakesEveryOtherModel ==
    stage \in {"ready", "calling"} =>
        /\ model \in ClaudeNames => client.class = "AsyncAnthropic"
        /\ model \notin ClaudeNames =>
             client.class \in {"AsyncOpenAI", "AsyncAzureOpenAI"}
        /\ (model \notin ClaudeNames /\ LocalSet) => Redirected

\* C18 as amended: as above, but the local endpoint takes only the models
\* whose name does not contain gpt in small letters; a model whose name
\* contains it is resolved as if no local endpoint were set, to the client
\* of the managed cloud or to the default one.
C18_LocalTakesModelsNotNamedGpt ==
    stage \in {"ready", "calling"} =>
        /\ model \in ClaudeNames => client.class = "AsyncAnthropic"
        /\ model \notin ClaudeNames =>
             client.class \in {"AsyncOpenAI", "AsyncAzureOpenAI"}
        /\ (model \in {GptUpper, Qwen} /\ LocalSet) => Redirected
        /\ (model = GptLower \/ (model \notin ClaudeNames /\ ~LocalSet)) =>
             /\ ~Redirected
             /\ IF CloudOn
                THEN /\ client.class = "AsyncAzureOpenAI"
                     /\ client.azure_endpoint = environ.AZURE_OPENAI_ENDPOINT
                     /\ client.api_key = environ.AZURE_OPENAI_API_KEY
                ELSE client = [class |-> "AsyncOpenAI"]

\* A gateway for a model named gpt in small letters was built with the
\* local endpoint set, and has called its backend.
C18_Witness ==
    /\ stage = "calling" /\ model = GptLower /\ LocalSet
    /\ client = [class |-> "AsyncOpenAI"]

\* C19: the construction fails for a Claude model without an Anthropic key,
\* and, when the managed cloud is enabled, for any model that lacks its
\* endpoint or its key; a gateway whose construction failed issues no call.
C19_MissingCredentialsFailConstruction ==
    stage # "unbuilt" =>
        /\ (model \in ClaudeNames /\ ~AnthropicKeySet) => stage = "failed"
        /\ CloudLacking => stage = "failed"
        /\ stage = "failed" => requests = 0 /\ sent = << >>

\* C19 as amended: the construction fails for a Claude model without an
\* Anthropic key, whatever else is set, and, when the managed cloud is
\* enabled, for a model that is neither a Claude model nor taken by the
\* local endpoint and lacks its endpoint or its key; it succeeds otherwise.
\* A gateway whose construction failed has no client and issues no call.
C19_MissingCredentialsOfTheRouteFail ==
    stage # "unbuilt" =>
        /\ stage = "failed" <=>
             \/ model \in ClaudeNames /\ ~AnthropicKeySet
             \/ /\ model \notin ClaudeNames
                /\ ~(LocalSet /\ model # GptLower)
                /\ CloudLacking
        /\ stage = "failed" =>
             client = NoClient /\ family = "none" /\ requests = 0 /\ sent = << >>

\* The construction for a Claude model failed with the local endpoint set.
C19_Witness ==
    /\ stage = "failed" /\ model \in ClaudeNames /\ LocalSet
    /\ ~IsSet("ANTHROPIC_API_KEY")

\* ------------------------------------------------------------ cancellation
\* A different gateway: the exception leaves the call and the unit stays
\* taken.
AbandonLeaking(c, e) ==
    /\ pc' = [pc EXCEPT ![c] = "raised"]
    /\ error' = [error EXCEPT ![c] = e]
    /\ cause' = [cause EXCEPT ![c] = e]
    /\ UNCHANGED <<sem_value, released, sleeps>>

\* An exception that no except clause of the adapter catches leaves
\* completion_openai or completion_anthropic, then the async with of
\* LM.__call__, whose exit releases the unit (lm.py:375).
Abandon(c, e) == Raise(c, e, e)

\* The caller gives up on call c (a timeout around its await of LM.__call__
\* cancels the task) while the call awaits the network call (lm.py:61, 194)
\* or the backoff sleep (lm.py:128, 227): asyncio raises CancelledError at
\* that await.  CancelledError derives from BaseException, so the clause
\* except Exception (lm.py:120, 219) does not catch it, and the sleep is
\* inside the handler already: in both places the exception leaves the
\* adapter.
Cancel(c) ==
    /\ pc[c] \in {"calling", "sleeping"}
    /\ Abandon(c, Error("CancelledError", "await", i[c]))
    /\ UNCHANGED <<gateway, waiters, req, i, backoff, msg_bound, result, reply,
                   calls_made, acquired, key, records, probe_steps, wiring, decoding>>

\* A gateway whose callers make plain text requests.
InitPlain ==
    /\ Init
    /\ workload = {NoRequest}

\* The callers may give up on their calls.
NextCancel ==
    \/ Next
    \/ \E c \in Calls : Cancel(c)

SpecCancel == InitPlain /\ [][NextCancel]_vars

Cancelled(c) == pc[c] = "raised" /\ error[c].type = "CancelledError"

\* C21: when the caller cancels a call that waits on the network call or on
\* a backoff sleep, the unit the call holds is leaked: it stays held and the
\* capacity left to other callers is reduced.
C21_CancelledCallKeepsUnit ==
    \A c \in Calls :
        Cancelled(c) => Holding(c) /\ sem_value < max_concurrency

\* C21 as amended: a call cancelled while it waits on the network call or on
\* a backoff sleep ends there, without a further attempt or sleep, and has
\* released its unit; the free units and the units held by the calls still
\* in their loops add up to max_concurrency, so no capacity is lost.
C21_CancelledCallReleasesUnit ==
    /\ \A c \in Calls :
        Cancelled(c) =>
            /\ acquired[c] = 1 /\ released[c] = 1
            /\ error[c] = cause[c]
            /\ calls_made[c] = error[c].at + 1
            /\ Len(sleeps[c]) \in {error[c].at, error[c].at + 1}
    /\ sem_value + Cardinality({c \in Calls : InLoop(c)}) = max_concurrency

\* A call was cancelled in its backoff sleep while another caller queued
\* for its unit, and the queued caller now has it.
C21_Witness ==
    \E c, d \in Calls :
        /\ Cancelled(c) /\ Len(sleeps[c]) = error[c].at + 1
        /\ max_concurrency = 1
        /\ pc[d] = "calling" /\ Holding(d)

\* -------------------------------------------------- the monitor's records
\* An Anthropic-style gateway whose first two callers pass the key PROBE,
\* so the monitor keeps the records of their calls together; probe_steps
\* then holds the steps of their attempts under way, interleaved.
InitMonitor ==
    /\ Constructed
    /\ family = "anthropic"
    /\ workload = {NoRequest}
    /\ key = [c \in Calls |-> IF c <= 2 THEN PROBE ELSE GENERAL]
    /\ NoRecords
    /\ NoWiring(EmptyDict)
    /\ NoDecoding

SpecMonitor == InitMonitor /\ [][Next]_vars

\* C22: under every interleaving of concurrent calls no monitor update is
\* lost: the latency samples held equal the replies delivered to all the
\* attempts, the usage records held equal the replies that carried usage
\* figures, and a step never removes or overwrites a record: it appends at
\* most one sample and one usage record.
C22_NoMonitorUpdateLost ==
    /\ [](probe_timings = sent_replies /\ probe_usages = sent_usages)
    /\ [][/\ probe_timings' \in {probe_timings, probe_timings + 1}
          /\ probe_usages' \in {probe_usages, probe_usages + 1}
          /\ sent_replies' > sent_replies =>
                probe_timings' = probe_timings + 1]_vars

\* Two calls hold units at once and each has had a reply logged: one is in
\* its backoff sleep after a reply that did not decode, the other awaits the
\* network again.
C22_Witness ==
    \E c, d \in Calls :
        /\ c # d /\ Holding(c) /\ Holding(d)
        /\ pc[c] = "sleeping" /\ pc[d] = "calling"
        /\ calls_made[d] > 1
        /\ probe_timings >= 2 /\ probe_usages >= 1

\* ------------------------------------------------- tools and output modes
\* The entries of an OpenAI-style request that ask for a tool call.
ToolKeys == {"tools", "tool_choice", "parallel_tool_calls"}

\* C23: no backend request combines the two output contracts: a request
\* that carries a tool list carries no structured-output directive, neither
\* a JSON schema nor json mode.
C23_ToolsExcludeStructuredOutput ==
    stage = "calling" =>
        \A n \in DOMAIN sent :
            "tools" \in DOMAIN sent[n] => sent[n].response_format.type = "text"

\* C25: for the OpenAI-style backend every attempt's request carries the
\* caller's tool list with tool_choice required and parallel_tool_calls
\* false when tools is non-empty, and none of the three entries when tools
\* is empty.
C25_ToolFieldsFollowTools ==
    (family = "openai" /\ stage = "calling") =>
        \A n \in DOMAIN sent :
            IF given.tools # {}
            THEN /\ ToolKeys \subseteq DOMAIN sent[n]
                 /\ sent[n].tools = given.tools
                 /\ sent[n].tool_choice = "required"
                 /\ sent[n].parallel_tool_calls = FALSE
            ELSE ToolKeys \cap DOMAIN sent[n] = {}

\* All five attempts of a call with a tool were made, after all five of a
\* call without tools.
C25_Witness ==
    /\ family = "openai" /\ stage = "calling"
    /\ requests = 2 /\ Len(sent) = 5
    /\ given.tools = {"pick"}
    /\ sent[5].tool_choice = "required"

\* ------------------------------------------------ the replies to a request
\* The requests of an OpenAI-style gateway, those with an empty schema
\* among them.
RequestsAnySchema ==
    [tools : SUBSET ToolNames, json_mode : BOOLEAN,
     json_schema : {"None", "Schema", EMPTYSCHEMA}]

\* The request of the call in progress, as the adapter sees it.
RequestOf(h) ==
    [tools |-> h.tools, json_mode |-> h.json_mode, json_schema |-> h.json_schema]

\* The replies a backend can give to any of them.
AnyReplies == UNION {Replies(family, r) : r \in RequestsAnySchema}

\* The attempt under way has its reply.
Answered == "response" \in DOMAIN heap

\* The network call of the attempt under way delivers rep, which the
\* adapter binds to response and decodes (lm.py:61-119, lm.py:194-217);
\* outcome is what the attempt returns or raises.
Answer(rep) ==
    /\ stage = "calling"
    /\ ~Answered
    /\ rep \in Replies(family, RequestOf(heap))
    /\ heap' = Merge(heap, [response |-> rep,
                            outcome |-> Decode(family, RequestOf(heap), rep)])
    /\ UNCHANGED <<gateway, calls, model, environ, client, stage, given, sent,
                   requests, decoding>>

\* The attempt raised and was not the last: the loop comes round to the
\* next network call (lm.py:120-129, 47-75; lm.py:219-228, 152-194).
Retry ==
    /\ stage = "calling"
    /\ Answered /\ ~heap.outcome.ok
    /\ Len(sent) < Tries
    /\ heap' = BuildRequest(Without(Without(heap, "response"), "outcome"))
    /\ sent' = Append(sent, Wire(heap'))
    /\ UNCHANGED <<gateway, calls, model, environ, client, stage, given, requests,
                   decoding>>

\* The attempt returned, or raised and was the last: the call is over
\* (lm.py:106-119, 130-132; lm.py:215-217, 229-231).
Done ==
    /\ Answered
    /\ heap.outcome.ok \/ Len(sent) = Tries
    /\ Finish

\* An OpenAI-style gateway with no default args.
InitAnswer ==
    /\ BuiltFor(GptLower)
    /\ family = AdapterOf(client)
    /\ Quiet
    /\ NoWiring(EmptyDict)
    /\ NoDecoding

NextAnswer ==
    \/ \E r \in RequestsAnySchema : Send(EmptyDict, Greeting, r)
    \/ \E rep \in AnyReplies : Answer(rep)
    \/ Retry
    \/ Done

\* One caller at a time, every network call answered.
SpecAnswer == InitAnswer /\ [][NextAnswer]_vars

\* The tool calls of a reply that name a requested tool.
KnownCalls(rep, tools) ==
    {n \in 1 .. Len(rep.tool_calls) : rep.has_calls /\ rep.tool_calls[n].name \in tools}

\* C24: with tools requested of the OpenAI-style backend, a reply is
\* accepted exactly when some tool call of it, wherever it stands in the
\* list, names a requested tool, and the name and arguments returned are
\* those of such a call; any other reply fails the attempt.
C24_AnyKnownToolCallAccepted ==
    (family = "openai" /\ Answered /\ heap.tools # {}) =>
        LET known == KnownCalls(heap.response, heap.tools)
        IN /\ heap.outcome.ok <=> known # {}
           /\ heap.outcome.ok =>
                \E n \in known :
                    /\ heap.outcome.val.name = heap.response.tool_calls[n].name
                    /\ heap.outcome.val.value =
                         JsonLoads(heap.response.tool_calls[n].arguments).val

\* C24 as amended: with tools requested of the OpenAI-style backend, a
\* reply is accepted exactly when it carries usage figures, its first tool
\* call names a requested tool and the arguments of that call are valid
\* JSON; the name and the decoded arguments of the first call are returned.
\* A reply without tool calls, or whose first call names another tool even
\* if a later one is requested, or whose first arguments do not parse,
\* fails the attempt.
C24_FirstToolCallDecides ==
    (family = "openai" /\ Answered /\ heap.tools # {}) =>
        LET rep == heap.response
            first == rep.tool_calls[1]
            good == /\ rep.usage
                    /\ rep.has_calls /\ Len(rep.tool_calls) > 0
                    /\ first.name \in heap.tools
                    /\ JsonLoads(first.arguments).ok
        IN /\ heap.outcome.ok <=> good
           /\ heap.outcome.ok =>
                heap.outcome.val =
                    Result("ToolCall", first.name, JsonLoads(first.arguments).val)
           /\ ~heap.outcome.ok =>
                heap.outcome.type \in {"AssertionError", "JSONDecodeError"}

\* The fifth attempt is answered by a reply whose second tool call is the
\* requested one, and fails.
C24_Witness ==
    /\ family = "openai" /\ Answered /\ heap.tools = {"pick"}
    /\ Len(sent) = 5
    /\ Len(heap.response.tool_calls) = 2
    /\ heap.response.tool_calls[2].name = "pick"
    /\ ~heap.outcome.ok /\ heap.outcome.where = "tool_name"

\* The attempt decoded its reply as JSON: it returned the decoded object, or
\* the decoding of the content raised.
ParsedAsJson(o) ==
    \/ o.ok /\ o.val.variant = "Json"
    \/ ~o.ok /\ o.type = "JSONDecodeError" /\ o.where = "content"

\* C26: for the OpenAI-style backend the response_format of every attempt
\* is json_object when json mode is set, with or without a schema,
\* json_schema with the caller's schema when a schema alone is given (one
\* that is not empty), and text otherwise; without tools, a reply that has
\* content is parsed as JSON exactly when the directive is not text, and
\* returned as it is when the directive is text.
C26_DirectiveDecidesParsing ==
    (family = "openai" /\ stage = "calling") =>
        \A n \in DOMAIN sent :
            LET rf == sent[n].response_format
            IN /\ rf = IF heap.json_mode THEN [type |-> "json_object"]
                       ELSE IF heap.json_schema \notin {"None", EMPTYSCHEMA}
                       THEN [type |-> "json_schema", json_schema |-> given.json_schema]
                       ELSE [type |-> "text"]
               /\ (/\ Answered /\ heap.tools = {}
                   /\ heap.response.usage /\ heap.response.content # PyNone) =>
                     /\ ParsedAsJson(heap.outcome) <=> rf.type # "text"
                     /\ rf.type = "text" =>
                          heap.outcome.val = Result("Text", "", heap.response.content)

\* ---------------------------------------------------- the gate, once more
\* C27: at every moment the units held and the free units of the semaphore
\* add up to max_concurrency; a call that has ended, by returning or by
\* raising at any attempt, has released the one unit it took, so that when
\* every call has ended all max_concurrency units are free.
C27_UnitsConserved ==
    /\ sem_value + Cardinality({c \in Calls : Holding(c)}) = max_concurrency
    /\ \A c \in Calls :
        /\ Holding(c) <=> InLoop(c)
        /\ Ended(c) => acquired[c] = 1 /\ released[c] = 1
    /\ (\A c \in Calls : Ended(c)) => sem_value = max_concurrency

\* Every call has ended and every unit is free: one call returned, and one
\* raised, at its first attempt or at its fifth.
C27_Witness ==
    /\ \A c \in Calls : Ended(c)
    /\ \E c \in Calls : pc[c] = "returned"
    /\ \E c \in Calls : pc[c] = "raised" /\ calls_made[c] \in {1, 5}
    /\ sem_value = max_concurrency

\* C29: the retry state of a call is its own: a call enters its loop with
\* attempt count 0 and delay 4 whatever the other calls have been through,
\* its attempt count and delay follow from its own attempts alone, and a
\* step of one call leaves the attempt count, the delay, the sleeps and the
\* network calls of every other call as they were.
C29_RetryStateIsPrivate ==
    /\ [](\A c \in Calls :
            (InLoop(c) \/ Ended(c)) =>
                /\ i[c] = calls_made[c] - 1
                /\ backoff[c] = Min(30, 4 * 2 ^ i[c]))
    /\ [][\A c \in Calls :
            /\ (~InLoop(c) /\ InLoop(c)') => i'[c] = 0 /\ backoff'[c] = 4
            /\ pc'[c] # pc[c] =>
                 \A d \in Calls \ {c} :
                     /\ i'[d] = i[d] /\ backoff'[d] = backoff[d]
                     /\ sleeps'[d] = sleeps[d] /\ calls_made'[d] = calls_made[d]]_vars

\* A call enters its loop while another, three failures in, sleeps with a
\* delay of 16.
C29_Witness ==
    \E c, d \in Calls :
        /\ pc[c] = "sleeping" /\ i[c] = 2 /\ backoff[c] = 16
        /\ pc[d] = "calling" /\ i[d] = 0 /\ backoff[d] = 4 /\ calls_made[d] = 1

\* ------------------------------------------------------------- progress
\* The network call of call c completes: it raises or delivers a reply.
Completes(c) ==
    \/ \E t \in ClientErrorTypes : ClientRaises(c, t)
    \/ \E rep \in Replies(family, req[c]) : ClientReplies(c, rep)

\* Every network call and every sleep completes in the end, and the event
\* loop runs the waiter a release has woken (lm.py:61, 194; 128, 227; 375).
Fairness ==
    \A c \in Calls :
        /\ WF_vars(Completes(c))
        /\ WF_vars(WakeUp(c))
        /\ WF_vars(Admit(c))

\* An Anthropic-style gateway whose callers make plain text requests.
InitLive ==
    /\ InitPlain
    /\ family = "anthropic"

SpecLive == InitLive /\ [][Next]_vars /\ Fairness

\* C28: provided every network call and every sleep completes, a call that
\* holds a unit ends, by returning or raising, within 5 attempts and 4
\* sleeps, and a call that waits on the gate is admitted.
C28_CallsEndAndWaitersEnter ==
    /\ \A c \in Calls : InLoop(c) ~> Ended(c)
    /\ \A c \in Calls : pc[c] = "waiting" ~> InLoop(c)
    /\ [](\A c \in Calls : calls_made[c] <= 5 /\ Len(sleeps[c]) <= 4)

\* A caller waits on the gate while the holder of the unit makes its fifth
\* attempt.
C28_Witness ==
    \E c, d \in Calls :
        /\ pc[c] = "waiting"
        /\ pc[d] = "calling" /\ calls_made[d] = 5 /\ Len(sleeps[d]) = 4

\* ------------------------------------------------------------------ LM.json
\* What client.beta.chat.completions.parse may come to (lm.py:415-421): the
\* parsed object, a message without one, or an exception of the client.
ParseOutcomes == {"parsed", "none", "raises"}

\* LM.json is called (lm.py:409-419): the network call is issued at once,
\* outside the async with of LM.__call__ and outside any retry loop.  The
\* Anthropic client has no attribute beta.chat, so the call raises before
\* it reaches the network.
JsonCall(c) ==
    /\ pc[c] = "idle"
    /\ \A b \in Calls : b < c => pc[b] # "idle"
    /\ IF family = "openai"
       THEN /\ pc' = [pc EXCEPT ![c] = "parsing"]
            /\ calls_made' = [calls_made EXCEPT ![c] = 1]
            /\ UNCHANGED <<error, cause>>
       ELSE /\ pc' = [pc EXCEPT ![c] = "raised"]
            /\ error' = [error EXCEPT ![c] = Error("AttributeError", "client", 0)]
            /\ cause' = [cause EXCEPT ![c] = Error("AttributeError", "client", 0)]
            /\ UNCHANGED calls_made
    /\ UNCHANGED <<gateway, sem_value, waiters, req, i, backoff, msg_bound, result,
                   reply, sleeps, acquired, released, key, records, probe_steps,
                   wiring, decoding>>

\* The network call of LM.json ends (lm.py:415-422): the parsed object is
\* returned, or the assertion or the client's exception reaches the caller.
JsonEnds(c, out) ==
    /\ pc[c] = "parsing"
    /\ IF out = "parsed"
       THEN /\ pc' = [pc EXCEPT ![c] = "returned"]
            /\ result' = [result EXCEPT ![c] = Result("Json", "", PyDict("answer=4"))]
            /\ UNCHANGED <<error, cause>>
       ELSE LET e == IF out = "none" THEN Error("AssertionError", "parsed", 0)
                     ELSE Error("TransportError", "client", 0)
            IN /\ pc' = [pc EXCEPT ![c] = "raised"]
               /\ error' = [error EXCEPT ![c] = e]
               /\ cause' = [cause EXCEPT ![c] = e]
               /\ UNCHANGED result
    /\ UNCHANGED <<gateway, sem_value, waiters, req, i, backoff, msg_bound, reply,
                   sleeps, calls_made, acquired, released, key, records,
                   probe_steps, wiring, decoding>>

\* The callers use LM.__call__ and LM.json alike.
NextJson ==
    \/ Next
    \/ \E c \in Calls : JsonCall(c)
    \/ \E c \in Calls, out \in ParseOutcomes : JsonEnds(c, out)

SpecJson == InitPlain /\ [][NextJson]_vars

\* The calls that await the backend.
AtBackend == {c \in Calls : pc[c] \in {"calling", "parsing"}}

\* C30: every backend call of a gateway is made by a call that holds one of
\* its units, through LM.json as through LM.__call__, so the backend calls
\* under way at once are never more than max_concurrency.
C30_EveryBackendCallHoldsUnit ==
    /\ \A c \in AtBackend : Holding(c)
    /\ Cardinality(AtBackend) <= max_concurrency

====
